---- MODULE Spec2Model ----
(***************************************************************************)
(* Model of gAi (src/main.rs): one run of main, from dotenv() to process   *)
(* exit.  The external collaborators (environment, git, the HTTP API) are  *)
(* nondeterministic inputs drawn at the step that consults them; what the  *)
(* program does to the outside world (processes spawned, HTTP requests,    *)
(* lines printed, exit status) is recorded in history variables.           *)
(* Texts that the program normalizes are sequences of one-character        *)
(* strings; texts it only carries along are plain strings.                 *)
(***************************************************************************)
EXTENDS Integers, Sequences, FiniteSets, TLC

\* ------------------------------------------------------------------ bounds

\* Longest model-reply content enumerated over Alphabet.
MaxLen == 3
\* Longest choices array of a response body.
MaxChoices == 2

\* ---------------------------------------------------------------- alphabet

Quote == "\""
Whitespace == {" ", "\n", "\t"}
Alphabet == {" ", Quote, "a"}

RECURSIVE SeqsUpTo(_)
SeqsUpTo(n) ==
    IF n = 0 THEN {<<>>}
    ELSE LET shorter == SeqsUpTo(n - 1)
         IN  shorter \cup {Append(s, c) : s \in {t \in shorter : Len(t) = n - 1}, c \in Alphabet}

FixHandleNull ==
    <<"f", "i", "x", ":", " ", "h", "a", "n", "d", "l", "e", " ", "n", "u", "l", "l">>
FeatAddFoo ==
    <<"f", "e", "a", "t", ":", " ", "a", "d", "d", " ", "f", "o", "o">>
Examples ==
    { FixHandleNull,
      <<Quote>> \o FixHandleNull \o <<Quote>>,
      <<" ", "\t">> \o FixHandleNull \o <<"\n">>,
      <<Quote>> \o FeatAddFoo \o <<Quote>> }

Contents == SeqsUpTo(MaxLen) \cup Examples

\* ------------------------------------------------- str::trim, trim_matches

RECURSIVE trim_start_in(_, _)
trim_start_in(s, chars) ==
    IF s = <<>> \/ Head(s) \notin chars THEN s
    ELSE trim_start_in(Tail(s), chars)

RECURSIVE trim_end_in(_, _)
trim_end_in(s, chars) ==
    IF s = <<>> \/ s[Len(s)] \notin chars THEN s
    ELSE trim_end_in(SubSeq(s, 1, Len(s) - 1), chars)

\* str::trim(): all leading and trailing whitespace removed.
trim(s) == trim_end_in(trim_start_in(s, Whitespace), Whitespace)

\* A trim_matches that removes at most one matching character from each end.
trim_matches_one(s, c) ==
    LET a == IF s # <<>> /\ Head(s) = c THEN Tail(s) ELSE s
    IN  IF a # <<>> /\ a[Len(a)] = c THEN SubSeq(a, 1, Len(a) - 1) ELSE a

\* str::trim_matches(c): every leading and trailing occurrence of c removed.
trim_matches(s, c) == trim_end_in(trim_start_in(s, {c}), {c})

\* main.rs 201-204: commit_message.trim().trim_matches('"').to_string()
clean(s) == trim_matches(trim(s), Quote)

\* ------------------------------------------------------------ small values

NoText == <<>>
None == [some |-> FALSE]

Choice(c) == [message |-> [role |-> "assistant", content |-> c]]

Filler(n) == [i \in 1..n |-> Choice(<<"a">>)]

ChoiceLists ==
    {<<>>} \cup {<<Choice(c)>> \o Filler(n) : c \in Contents, n \in 0..(MaxChoices - 1)}

ErrorFields ==
    { [kind |-> "absent", message |-> ""],
      [kind |-> "null", message |-> ""],
      [kind |-> "object", message |-> "invalid api key"] }

\* Response bodies: not JSON at all; JSON with a choices array; JSON without one.
Garbage == [json |-> FALSE, hasChoices |-> FALSE, choices |-> <<>>,
            error |-> [kind |-> "absent", message |-> ""]]
Bodies ==
    {Garbage}
    \cup [json : {TRUE}, hasChoices : {TRUE}, choices : ChoiceLists, error : ErrorFields]
    \cup [json : {TRUE}, hasChoices : {FALSE}, choices : {<<>>}, error : ErrorFields]

Statuses == {200, 401, 500}

Responses == [status : Statuses, readable : BOOLEAN, body : Bodies]

Diffs == {"", "+add foo()\n"}

Stderrs == {"", "nothing to commit"}

\* anyhow errors: a kind, the fixed message text of the source, and what the
\* formatted message carries after it: a text (the API error's message, git's
\* standard error, the placeholder) or the raw response body.
NoErr ==
    [kind |-> "none", msg |-> "", text |-> "", hasBody |-> FALSE, body |-> Garbage]
Error(kind, msg, text) ==
    [kind |-> kind, msg |-> msg, text |-> text, hasBody |-> FALSE, body |-> Garbage]
ErrorWithBody(kind, msg, body) ==
    [kind |-> kind, msg |-> msg, text |-> "", hasBody |-> TRUE, body |-> body]

SystemPrompt == "You are an expert at writing conventional git commit messages. ..."
UserPrefix == "Generate a conventional commit message for this diff:\n\n"

VARIABLES
    pc,            \* position in main / generate_commit_message
    args,          \* Args: the generate and commit flags
    env_key,       \* whether OPENAI_API_KEY is set in the process environment
    git_check,     \* exit status of the repository check (main.rs 211)
    diff,          \* get_git_diff's result
    response,      \* the HTTP response
    response_body, \* the deserialized OpenAIResponse
    commit_message,\* first choice's content (main.rs 193)
    clean_message, \* the cleaned message returned to main
    output,        \* exit status and standard error of git commit (main.rs 238)
    spawned,       \* external processes invoked, in order
    http_calls,    \* HTTP requests sent, in order
    key_lookups,   \* number of env::var("OPENAI_API_KEY") calls
    stdout,        \* lines printed to standard output
    err,           \* the error main returned
    exit_code      \* process exit status, -1 while running

vars == <<pc, args, env_key, git_check, diff, response, response_body, commit_message,
          clean_message, output, spawned, http_calls, key_lookups, stdout, err, exit_code>>

Some(v) == [some |-> TRUE, val |-> v]

Init ==
    /\ pc = "dotenv"
    /\ args \in [generate : BOOLEAN, commit : BOOLEAN]
    /\ env_key \in BOOLEAN
    /\ git_check = None
    /\ diff = None
    /\ response = None
    /\ response_body = None
    /\ commit_message = None
    /\ clean_message = None
    /\ output = None
    /\ spawned = <<>>
    /\ http_calls = <<>>
    /\ key_lookups = 0
    /\ stdout = <<>>
    /\ err = NoErr
    /\ exit_code = -1

\* `?` on an Err in generate_commit_message / create_commit, then main returning
\* it: the error chain goes to standard error and the process exits non-zero.
Fail(e) ==
    /\ err' = e
    /\ pc' = "exit"
    /\ exit_code' = 1

\* main.rs 68: dotenv().ok() -- a .env file may supply the key when the process
\* environment has none; a missing or unreadable file is ignored.
Dotenv ==
    /\ pc = "dotenv"
    /\ \E file_has_key \in BOOLEAN : env_key' = (env_key \/ file_has_key)
    /\ pc' = "main"
    /\ UNCHANGED <<args, git_check, diff, response, response_body, commit_message,
                   clean_message, output, spawned, http_calls, key_lookups, stdout, err, exit_code>>

\* main.rs 73: the mode test.
wants_message(a) == a.generate \/ a.commit

\* main.rs 88-95: no flag given.
MainHelp ==
    /\ pc = "main"
    /\ ~wants_message(args)
    /\ stdout' = stdout \o [i \in 1..4 |-> [tag |-> "help", text |-> NoText]]
    /\ pc' = "exit"
    /\ exit_code' = 0
    /\ UNCHANGED <<args, env_key, git_check, diff, response, response_body, commit_message,
                   clean_message, output, spawned, http_calls, key_lookups, err>>

\* main.rs 73-75: enter generate_commit_message.
MainGenerate ==
    /\ pc = "main"
    /\ wants_message(args)
    /\ pc' = "env_var"
    /\ UNCHANGED <<args, env_key, git_check, diff, response, response_body, commit_message,
                   clean_message, output, spawned, http_calls, key_lookups, stdout, err, exit_code>>

\* EnvVar with a missing key defaulted instead of propagated (unwrap_or_default).
EnvVar_unchecked ==
    /\ pc = "env_var"
    /\ key_lookups' = key_lookups + 1
    /\ pc' = "git_check"
    /\ UNCHANGED <<args, env_key, git_check, diff, response, response_body, commit_message,
                   clean_message, output, spawned, http_calls, stdout, err, exit_code>>

\* main.rs 100: env::var("OPENAI_API_KEY").context(...)?
EnvVar ==
    /\ pc = "env_var"
    /\ key_lookups' = key_lookups + 1
    /\ IF env_key
       THEN pc' = "git_check" /\ UNCHANGED <<err, exit_code>>
       ELSE Fail(Error("ConfigurationError", "OPENAI_API_KEY not found", ""))
    /\ UNCHANGED <<args, env_key, git_check, diff, response, response_body, commit_message,
                   clean_message, output, spawned, http_calls, stdout>>

\* An exit-status test that accepts every status.
success_always(status) == TRUE

\* ExitStatus::success()
success(status) == status = 0

\* main.rs 211-218: git rev-parse --is-inside-work-tree
GitRevParse ==
    /\ pc = "git_check"
    /\ spawned' = Append(spawned, [cmd |-> "rev-parse", message |-> NoText])
    /\ \E launched \in BOOLEAN, status \in {0, 128} :
          IF ~launched
          THEN Fail(Error("ExecutionError", "Failed to execute git command. Is git installed?", ""))
               /\ UNCHANGED git_check
          ELSE IF ~success(status)
          THEN Fail(Error("NotARepository", "Not inside a git repository", ""))
               /\ git_check' = Some(status)
          ELSE pc' = "git_diff" /\ git_check' = Some(status) /\ UNCHANGED <<err, exit_code>>
    /\ UNCHANGED <<args, env_key, diff, response, response_body, commit_message,
                   clean_message, output, http_calls, key_lookups, stdout>>

\* An emptiness test that looks for a lone newline instead of no text.
is_empty_newline(d) == d = "\n"

\* String::is_empty()
is_empty(d) == d = ""

\* main.rs 221-234: git diff --staged; the exit status is not looked at.
GitDiffStaged ==
    /\ pc = "git_diff"
    /\ spawned' = Append(spawned, [cmd |-> "diff", message |-> NoText])
    /\ \E launched \in BOOLEAN, utf8 \in BOOLEAN, d \in Diffs :
          IF ~launched
          THEN Fail(Error("ExecutionError", "Failed to execute git diff command", ""))
               /\ UNCHANGED diff
          ELSE IF ~utf8
          THEN Fail(Error("EncodingError", "Failed to parse git diff output as UTF-8", ""))
               /\ UNCHANGED diff
          ELSE IF is_empty(d)
          THEN Fail(Error("EmptyDiff", "No staged changes found. Use 'git add' to stage your changes.", ""))
               /\ diff' = Some(d)
          ELSE pc' = "send" /\ diff' = Some(d) /\ UNCHANGED <<err, exit_code>>
    /\ UNCHANGED <<args, env_key, git_check, response, response_body, commit_message,
                   clean_message, output, http_calls, key_lookups, stdout>>

\* main.rs 109-165: the request body.
OpenAIRequest(d) ==
    [model |-> "gpt-4.1-nano",
     messages |-> << [role |-> "system", content |-> <<SystemPrompt>>],
                     [role |-> "user", content |-> <<UserPrefix, d>>] >>,
     temperature |-> 1]

\* main.rs 106-174: build the request and POST it.
Send ==
    /\ pc = "send"
    /\ http_calls' = Append(http_calls, OpenAIRequest(diff.val))
    /\ \/ /\ Fail(Error("TransportError", "Failed to send request to OpenAI API", ""))
          /\ UNCHANGED response
       \/ /\ \E r \in Responses : response' = Some(r)
          /\ pc' = "status"
          /\ UNCHANGED <<err, exit_code>>
    /\ UNCHANGED <<args, env_key, git_check, diff, response_body, commit_message,
                   clean_message, output, spawned, key_lookups, stdout>>

\* A status test that only rejects server errors.
is_success_below_500(status) == status < 500

\* StatusCode::is_success(): 200..=299
is_success(status) == 200 <= status /\ status <= 299

\* main.rs 178: response.text().await.unwrap_or_else(|_| "Unknown error")
error_text(r) ==
    IF r.readable
    THEN ErrorWithBody("ApiRequestFailed", "API request failed: ", r.body)
    ELSE Error("ApiRequestFailed", "API request failed: ", "Unknown error")

\* main.rs 177-180: the status gate.
StatusGate ==
    /\ pc = "status"
    /\ IF ~is_success(response.val.status)
       THEN Fail(error_text(response.val))
       ELSE pc' = "json" /\ UNCHANGED <<err, exit_code>>
    /\ UNCHANGED <<args, env_key, git_check, diff, response, response_body, commit_message,
                   clean_message, output, spawned, http_calls, key_lookups, stdout>>

\* main.rs 48-53 with serde's derive: the body must be readable JSON with a
\* `choices` array (a required field); `error` may be missing or null (None).
deserializes(r) == r.readable /\ r.body.json /\ r.body.hasChoices

OpenAIResponse(body) ==
    [choices |-> body.choices,
     error |-> IF body.error.kind = "object"
               THEN [some |-> TRUE, message |-> body.error.message]
               ELSE [some |-> FALSE, message |-> ""]]

\* main.rs 183-185: response.json::<OpenAIResponse>()
ParseJson ==
    /\ pc = "json"
    /\ IF ~deserializes(response.val)
       THEN /\ Fail(Error("MalformedResponse", "Failed to parse OpenAI API response", ""))
            /\ UNCHANGED response_body
       ELSE /\ response_body' = Some(OpenAIResponse(response.val.body))
            /\ pc' = "error_check"
            /\ UNCHANGED <<err, exit_code>>
    /\ UNCHANGED <<args, env_key, git_check, diff, response, commit_message,
                   clean_message, output, spawned, http_calls, key_lookups, stdout>>

\* main.rs 188-190: if let Some(error) = response_body.error
CheckApiError ==
    /\ pc = "error_check"
    /\ IF response_body.val.error.some
       THEN Fail(Error("ApiError", "OpenAI API error: ", response_body.val.error.message))
       ELSE pc' = "first_choice" /\ UNCHANGED <<err, exit_code>>
    /\ UNCHANGED <<args, env_key, git_check, diff, response, response_body, commit_message,
                   clean_message, output, spawned, http_calls, key_lookups, stdout>>

\* An extraction that falls back to an empty message (unwrap_or_default).
first_or_default(choices) ==
    IF choices = <<>> THEN Some(NoText) ELSE Some(choices[1].message.content)

\* slice::first(), then .message.content
first(choices) ==
    IF choices = <<>> THEN None ELSE Some(choices[1].message.content)

\* main.rs 193-198: .first().context("No choices in response")?
FirstChoice ==
    /\ pc = "first_choice"
    /\ LET c == first(response_body.val.choices)
       IN  IF ~c.some
           THEN /\ Fail(Error("NoChoices", "No choices in response", ""))
                /\ UNCHANGED commit_message
           ELSE /\ commit_message' = c
                /\ pc' = "clean"
                /\ UNCHANGED <<err, exit_code>>
    /\ UNCHANGED <<args, env_key, git_check, diff, response, response_body,
                   clean_message, output, spawned, http_calls, key_lookups, stdout>>

\* main.rs 201-206: clean the message and return Ok(clean_message) to main.
CleanMessage ==
    /\ pc = "clean"
    /\ clean_message' = Some(clean(commit_message.val))
    /\ pc' = "returned"
    /\ UNCHANGED <<args, env_key, git_check, diff, response, response_body, commit_message,
                   output, spawned, http_calls, key_lookups, stdout, err, exit_code>>

\* The commit branch taken in either mode.
takes_commit_branch_any(a) == a.generate \/ a.commit

\* main.rs 77: if args.commit
takes_commit_branch(a) == a.commit

\* main.rs 77-80 and 237-249: create_commit(&commit_message)?, then the
\* committed line and Ok(()).
CreateCommit ==
    /\ pc = "returned"
    /\ takes_commit_branch(args)
    /\ spawned' = Append(spawned, [cmd |-> "commit", message |-> clean_message.val])
    /\ \E launched \in BOOLEAN, status \in {0, 1}, stderr \in Stderrs :
          IF ~launched
          THEN Fail(Error("ExecutionError", "Failed to execute git commit command", ""))
               /\ UNCHANGED <<output, stdout>>
          ELSE IF ~success(status)
          THEN Fail(Error("CommitFailed", "Commit failed: ", stderr))
               /\ output' = Some([status |-> status, stderr |-> stderr])
               /\ UNCHANGED stdout
          ELSE /\ output' = Some([status |-> status, stderr |-> stderr])
               /\ stdout' = Append(stdout, [tag |-> "committed", text |-> clean_message.val])
               /\ pc' = "exit"
               /\ exit_code' = 0
               /\ UNCHANGED err
    /\ UNCHANGED <<args, env_key, git_check, diff, response, response_body, commit_message,
                   clean_message, http_calls, key_lookups>>

\* main.rs 81-87 and 95: print the message and the ready-to-use command.
PrintMessage ==
    /\ pc = "returned"
    /\ ~takes_commit_branch(args)
    /\ stdout' = stdout \o << [tag |-> "generated_header", text |-> NoText],
                              [tag |-> "message", text |-> clean_message.val],
                              [tag |-> "usage_header", text |-> NoText],
                              [tag |-> "git_commit_command", text |-> clean_message.val] >>
    /\ pc' = "exit"
    /\ exit_code' = 0
    /\ UNCHANGED <<args, env_key, git_check, diff, response, response_body, commit_message,
                   clean_message, output, spawned, http_calls, key_lookups, err>>

Next ==
    \/ Dotenv
    \/ MainHelp
    \/ MainGenerate
    \/ EnvVar
    \/ GitRevParse
    \/ GitDiffStaged
    \/ Send
    \/ StatusGate
    \/ ParseJson
    \/ CheckApiError
    \/ FirstChoice
    \/ CleanMessage
    \/ CreateCommit
    \/ PrintMessage

Spec == Init /\ [][Next]_vars

TypeOK ==
    /\ pc \in {"dotenv", "main", "env_var", "git_check", "git_diff", "send", "status",
                "json", "error_check", "first_choice", "clean", "returned", "exit"}
    /\ exit_code \in {-1, 0, 1}
    /\ Len(http_calls) <= 1
    /\ key_lookups <= 1

\* ------------------------------------------------------------------ claims

CommitSpawns == {i \in DOMAIN spawned : spawned[i].cmd = "commit"}
HasSpawned(cmd) == \E i \in DOMAIN spawned : spawned[i].cmd = cmd
Printed(tag) == {i \in DOMAIN stdout : stdout[i].tag = tag}
SuccessRange == 200..299

\* C1: git commit is invoked at most once, only when commit mode was requested,
\* and only after generate_commit_message returned Ok: the key was found, the
\* repository check and the diff succeeded with a non-empty diff, the request
\* was sent, the status was a success, the body deserialized with no error
\* object and a first choice.  A failure of any earlier stage ends the run with
\* no commit invocation.
C1_CommitOnlyAfterMessage ==
    /\ Cardinality(CommitSpawns) <= 1
    /\ CommitSpawns # {} =>
          /\ args.commit
          /\ env_key /\ key_lookups = 1
          /\ git_check.some /\ git_check.val = 0
          /\ diff.some /\ diff.val # ""
          /\ Len(http_calls) = 1
          /\ response.some /\ response.val.status \in SuccessRange
          /\ response_body.some
          /\ ~response_body.val.error.some
          /\ response_body.val.choices # <<>>
          /\ clean_message.some
          /\ CommitSpawns = {Len(spawned)}
    /\ err.kind \in {"ConfigurationError", "NotARepository", "EncodingError", "EmptyDiff",
                     "TransportError", "ApiRequestFailed", "MalformedResponse",
                     "ApiError", "NoChoices"} => CommitSpawns = {}
    /\ (err.kind = "ExecutionError" /\ ~clean_message.some) => CommitSpawns = {}

C1_Witness ==
    /\ pc = "exit"
    /\ exit_code = 0
    /\ CommitSpawns # {}
    /\ Printed("committed") # {}

\* C2: an empty staged diff fails the run with the "No staged changes found"
\* error and no HTTP request is sent; a non-zero repository check fails the run
\* with the not-a-repository error before git diff and before any HTTP request.
C2_NoRequestWithoutDiff ==
    /\ (diff.some /\ diff.val = "") =>
          /\ pc = "exit"
          /\ exit_code = 1
          /\ err.kind = "EmptyDiff"
          /\ err.msg = "No staged changes found. Use 'git add' to stage your changes."
          /\ http_calls = <<>>
    /\ (git_check.some /\ git_check.val # 0) =>
          /\ pc = "exit"
          /\ exit_code = 1
          /\ err.kind = "NotARepository"
          /\ ~HasSpawned("diff")
          /\ http_calls = <<>>
    /\ http_calls # <<>> => (diff.some /\ diff.val # "" /\ git_check.some /\ git_check.val = 0)

C2_Witness ==
    /\ pc = "exit"
    /\ diff.some /\ diff.val = ""
    /\ err.kind = "EmptyDiff"
    /\ spawned = << [cmd |-> "rev-parse", message |-> NoText],
                    [cmd |-> "diff", message |-> NoText] >>

\* C3: when the first choice's content is empty after normalization the run
\* fails with EmptyMessage; git commit is never invoked with an empty message
\* and generate mode never prints an empty message as a success.
C3_EmptyMessageRejected ==
    /\ (clean_message.some /\ clean_message.val = NoText) =>
          (pc = "exit" /\ err.kind = "EmptyMessage")
    /\ \A i \in CommitSpawns : spawned[i].message # NoText
    /\ \A i \in Printed("message") : stdout[i].text # NoText

\* C4: normalization is idempotent: normalizing the returned message again
\* gives the returned message, also when whitespace sits just inside the quotes.
C4_Idempotent ==
    clean_message.some => clean(clean_message.val) = clean_message.val

AllIn(s, from, to, chars) == \A k \in from..to : s[k] \in chars

\* m is raw without a run of whitespace and then a run of quotes at the front,
\* and without a run of quotes and then a run of whitespace at the back, each
\* run as long as it can be.
IsStripped(raw, m) ==
    \E i, p, q \in 0..Len(raw) :
        LET j == Len(raw) - i - p - Len(m) - q
        IN  /\ j >= 0
            /\ m = SubSeq(raw, i + p + 1, i + p + Len(m))
            /\ AllIn(raw, 1, i, Whitespace)
            /\ AllIn(raw, i + 1, i + p, {Quote})
            /\ AllIn(raw, i + p + Len(m) + 1, i + p + Len(m) + q, {Quote})
            /\ AllIn(raw, Len(raw) - j + 1, Len(raw), Whitespace)
            /\ m # <<>> => (m[1] # Quote /\ m[Len(m)] # Quote)
            /\ (m # <<>> /\ p = 0) => m[1] \notin Whitespace
            /\ (m # <<>> /\ q = 0) => m[Len(m)] \notin Whitespace
            /\ (m = <<>> /\ p + q = 0) => i + j = Len(raw)

C6_ErrorTakesPrecedence ==
    ( /\ pc = "exit"
      /\ response.some
      /\ response.val.status \in SuccessRange
      /\ response.val.readable
      /\ response.val.body.json
      /\ response.val.body.error.kind = "object" ) =>
        /\ err.kind = "ApiError"
        /\ err.text = response.val.body.error.message

\* C7: for any non-success status the run fails with ApiRequestFailed carrying
\* the raw body (the placeholder when the body cannot be read); the body is
\* never deserialized, whatever its shape, nothing is printed and git commit
\* is not invoked, in commit mode too.
C7_StatusGateFirst ==
    ( /\ response.some
      /\ response.val.status \notin SuccessRange
      /\ pc # "status" ) =>
        /\ pc = "exit"
        /\ exit_code = 1
        /\ err.kind = "ApiRequestFailed"
        /\ response.val.readable => (err.hasBody /\ err.body = response.val.body)
        /\ ~response.val.readable => (~err.hasBody /\ err.text = "Unknown error")
        /\ response_body = None
        /\ commit_message = None
        /\ clean_message = None
        /\ CommitSpawns = {}
        /\ stdout = <<>>

C7_Witness ==
    /\ pc = "exit"
    /\ args.commit
    /\ response.some
    /\ response.val.status = 401
    /\ response.val.readable
    /\ response.val.body.error = [kind |-> "object", message |-> "invalid api key"]
    /\ err.kind = "ApiRequestFailed"
    /\ err.body.error.message = "invalid api key"

\* C8: a success-status response that deserializes with an empty choices list
\* and no error object ends in the "No choices in response" error; no message
\* is returned or printed and git commit is not invoked.
C8_NoChoices ==
    ( /\ response_body.some
      /\ ~response_body.val.error.some
      /\ response_body.val.choices = <<>>
      /\ pc \notin {"error_check", "first_choice"} ) =>
        /\ pc = "exit"
        /\ exit_code = 1
        /\ err.kind = "NoChoices"
        /\ err.msg = "No choices in response"
        /\ clean_message = None
        /\ stdout = <<>>
        /\ CommitSpawns = {}

C8_Witness ==
    /\ pc = "exit"
    /\ response.some
    /\ response.val.body.choices = <<>>
    /\ response.val.body.error.kind = "null"
    /\ response_body.some
    /\ err.kind = "NoChoices"

\* C9: git commit is invoked with exactly the message returned to main; the
\* committed line is printed and the run exits 0 only if git commit exited
\* zero; a non-zero exit fails the run with CommitFailed carrying git's
\* standard error, prints nothing and exits non-zero.  Every failure exits
\* non-zero and every success path (generate, commit, help) exits 0.
C9_CommitOutcome ==
    /\ \A i \in CommitSpawns :
          clean_message.some /\ spawned[i].message = clean_message.val
    /\ Printed("committed") # {} =>
          /\ output.some /\ output.val.status = 0
          /\ exit_code = 0
          /\ \A i \in Printed("committed") : stdout[i].text = clean_message.val
    /\ (output.some /\ output.val.status # 0) =>
          /\ pc = "exit"
          /\ err.kind = "CommitFailed"
          /\ err.text = output.val.stderr
          /\ stdout = <<>>
          /\ exit_code = 1
    /\ (args.commit /\ exit_code = 0) => (output.some /\ output.val.status = 0)
    /\ err.kind # "none" => (pc = "exit" /\ exit_code = 1)
    /\ (pc = "exit" /\ err.kind = "none") => (exit_code = 0 /\ stdout # <<>>)
    /\ pc # "exit" => exit_code = -1

C9_Witness ==
    /\ pc = "exit"
    /\ output.some
    /\ output.val.status = 1
    /\ output.val.stderr = "nothing to commit"
    /\ err.kind = "CommitFailed"
    /\ spawned[Len(spawned)] = [cmd |-> "commit", message |-> FixHandleNull]

\* C10: with OPENAI_API_KEY absent, generate and commit mode fail with the
\* configuration error before any process is spawned and before any HTTP
\* request; in help mode the key is never looked up and no process or HTTP
\* call happens.
C10_KeyCheckedFirst ==
    /\ (key_lookups > 0 /\ ~env_key) =>
          /\ pc = "exit"
          /\ exit_code = 1
          /\ err.kind = "ConfigurationError"
          /\ spawned = <<>>
          /\ http_calls = <<>>
    /\ (spawned # <<>> \/ http_calls # <<>>) => (key_lookups = 1 /\ env_key)
    /\ ~(args.generate \/ args.commit) =>
          /\ key_lookups = 0
          /\ spawned = <<>>
          /\ http_calls = <<>>

C10_Witness ==
    /\ pc = "exit"
    /\ args.commit
    /\ key_lookups = 1
    /\ ~env_key
    /\ err.kind = "ConfigurationError"

====
